---- MODULE Spec2Model ----
(***************************************************************************)
(* Model of ChemTSv2's start-up sequence (run_chemts.py: set_default_config,*)
(* get_filter_modules, main) and of the D-score reward aggregation          *)
(* (reward/dscore_reward.py).                                               *)
(*                                                                          *)
(* A Python dict is modelled as a sequence of [k, v] entries in insertion   *)
(* order, because get_filter_modules iterates conf.items().  Every value is *)
(* a record of one shape: a scalar (Python bool, number or string, written  *)
(* as its repr) or a nested settings dict with 'module'/'class' fields.     *)
(*                                                                          *)
(* Spec is a run of main in an installation with all its files,             *)
(* SpecMissingFile a run where the model's structure file, its weights or   *)
(* the token file may be missing, SpecReward the reward calculation.        *)
(***************************************************************************)
EXTENDS Integers, Sequences, FiniteSets, TLC

VARIABLES pc, conf, user_conf, yaml_none, args, missing_file,
          root_state, log, error,
          weight, scaling, mol, values, reward

main_vars == <<pc, conf, user_conf, yaml_none, args, missing_file,
               root_state, log, error>>
reward_vars == <<weight, scaling, mol, values, reward>>
vars == <<main_vars, reward_vars>>

(* Bounds *)
MaxUserKeys == 2
MaxWeight == 1
MaxRaw == 1

None == "None"

(* ---------------- Python values ---------------- *)
Scalar(x) == [kind |-> "scalar", val |-> x, module |-> "", class |-> "", param |-> "", items |-> <<>>]
Dict(m, c, p) == [kind |-> "dict", val |-> "", module |-> m, class |-> c, param |-> p, items |-> <<>>]
List(xs) == [kind |-> "list", val |-> "", module |-> "", class |-> "", param |-> "", items |-> xs]
PyTrue == Scalar("True")
PyFalse == Scalar("False")
(* v == True under Python equality: the numbers 1 and 1.0 equal True *)
eq_True(v) == v.kind = "scalar" /\ v.val \in {"True", "1", "1.0"}

(* ---------------- ordered dict operations ---------------- *)
Keys(d) == {d[i].k : i \in DOMAIN d}
Has(d, k) == \E i \in DOMAIN d : d[i].k = k
Get(d, k) == d[CHOOSE i \in DOMAIN d : d[i].k = k].v
(* a setdefault that overwrites the entry the user supplied *)
setdefault_overwrite(d, k, v) ==
    IF Has(d, k)
    THEN [i \in DOMAIN d |-> IF d[i].k = k THEN [k |-> k, v |-> v] ELSE d[i]]
    ELSE Append(d, [k |-> k, v |-> v])
setdefault(d, k, v) == IF Has(d, k) THEN d ELSE Append(d, [k |-> k, v |-> v])
SetItem(d, k, v) ==
    IF Has(d, k)
    THEN [i \in DOMAIN d |-> IF d[i].k = k THEN [k |-> k, v |-> v] ELSE d[i]]
    ELSE Append(d, [k |-> k, v |-> v])
PopSelect(e, k) == e.k # k
Pop(d, k) == SelectSeq(d, LAMBDA e : PopSelect(e, k))

(* ---------------- set_default_config ---------------- *)
Defaults == <<
    [k |-> "trial", v |-> Scalar("1")],
    [k |-> "c_val", v |-> Scalar("1.0")],
    [k |-> "threshold_type", v |-> Scalar("time")],
    [k |-> "hours", v |-> Scalar("1")],
    [k |-> "generation_num", v |-> Scalar("1000")],
    [k |-> "simulation_num", v |-> Scalar("3")],
    [k |-> "expansion_threshold", v |-> Scalar("0.995")],
    [k |-> "flush_threshold", v |-> Scalar("-1")],
    [k |-> "infinite_loop_threshold_for_selection", v |-> Scalar("1000")],
    [k |-> "infinite_loop_threshold_for_expansion", v |-> Scalar("20")],
    [k |-> "use_lipinski_filter", v |-> PyTrue],
    [k |-> "lipinski_filter", v |-> Dict("filter.lipinski_filter", "LipinskiFilter", "rule_of_5")],
    [k |-> "use_radical_filter", v |-> PyTrue],
    [k |-> "radical_filter", v |-> Dict("filter.radical_filter", "RadicalFilter", "")],
    [k |-> "use_hashimoto_filter", v |-> PyTrue],
    [k |-> "hashimoto_filter", v |-> Dict("filter.hashimoto_filter", "HashimotoFilter", "")],
    [k |-> "use_sascore_filter", v |-> PyTrue],
    [k |-> "sascore_filter", v |-> Dict("filter.sascore_filter", "SascoreFilter", "3.5")],
    [k |-> "use_ring_size_filter", v |-> PyTrue],
    [k |-> "ring_size_filter", v |-> Dict("filter.ring_size_filter", "RingSizeFilter", "6")],
    [k |-> "include_filter_result_in_reward", v |-> PyFalse],
    [k |-> "model_json", v |-> Scalar("model/model.json")],
    [k |-> "model_weight", v |-> Scalar("model/model.h5")],
    [k |-> "output_dir", v |-> Scalar("result")],
    [k |-> "reward_setting", v |-> Dict("reward.logP_reward", "LogP_reward", "")],
    [k |-> "policy_setting", v |-> Dict("policy.ucb1", "Ucb1", "")],
    [k |-> "token", v |-> Scalar("model/tokens.pkl")],
    [k |-> "leaf_parallel", v |-> PyFalse],
    [k |-> "qsub_parallel", v |-> PyFalse],
    [k |-> "save_checkpoint", v |-> PyFalse],
    [k |-> "restart", v |-> PyFalse],
    [k |-> "checkpoint_file", v |-> PyFalse],
    [k |-> "neutralization", v |-> PyFalse] >>

RECURSIVE ApplyDefaults(_, _)
ApplyDefaults(d, i) ==
    IF i > Len(Defaults) THEN d
    ELSE LET next == setdefault(d, Defaults[i].k, Defaults[i].v)
         IN IF Len(next) >= Len(d) THEN ApplyDefaults(next, i + 1) ELSE next

set_default_config(d) == ApplyDefaults(d, 1)

(* ---------------- get_filter_modules ---------------- *)
(* pat = re.compile(r'^use.*filter$') restricted to the keys of the model *)
UseFilterKeys == {"use_lipinski_filter", "use_radical_filter", "use_hashimoto_filter",
                  "use_sascore_filter", "use_ring_size_filter", "use_custom_filter"}
pat_search(k) == k \in UseFilterKeys

(* k.replace('use_', '') on the keys pat matches *)
replace_use(k) ==
    CASE k = "use_lipinski_filter" -> "lipinski_filter"
      [] k = "use_radical_filter" -> "radical_filter"
      [] k = "use_hashimoto_filter" -> "hashimoto_filter"
      [] k = "use_sascore_filter" -> "sascore_filter"
      [] k = "use_ring_size_filter" -> "ring_size_filter"
      [] k = "use_custom_filter" -> "custom_filter"

KeyError == <<"KeyError">>

(* getattr(import_module(m), c): the class object, identified by module and name *)
FilterClass(s) == <<s.module, s.class>>

RECURSIVE FilterLoop(_, _, _)
FilterLoop(d, i, module_list) ==
    IF i > Len(d) THEN module_list
    ELSE IF ~pat_search(d[i].k) \/ ~eq_True(d[i].v)
         THEN FilterLoop(d, i + 1, module_list)
         ELSE IF ~Has(d, replace_use(d[i].k))
              THEN KeyError
              ELSE FilterLoop(d, i + 1,
                     Append(module_list, FilterClass(Get(d, replace_use(d[i].k)))))

(* get_filter_modules with module_list.insert(0, ...) in place of append *)
RECURSIVE FilterLoopPrepend(_, _, _)
FilterLoopPrepend(d, i, module_list) ==
    IF i > Len(d) THEN module_list
    ELSE IF ~pat_search(d[i].k) \/ ~eq_True(d[i].v)
         THEN FilterLoopPrepend(d, i + 1, module_list)
         ELSE IF ~Has(d, replace_use(d[i].k))
              THEN KeyError
              ELSE FilterLoopPrepend(d, i + 1,
                     <<FilterClass(Get(d, replace_use(d[i].k)))>> \o module_list)
get_filter_modules_prepend(d) == FilterLoopPrepend(d, 1, <<>>)

(* get_filter_modules without the test of the flag's value *)
RECURSIVE FilterLoopAnyFlag(_, _, _)
FilterLoopAnyFlag(d, i, module_list) ==
    IF i > Len(d) THEN module_list
    ELSE IF ~pat_search(d[i].k)
         THEN FilterLoopAnyFlag(d, i + 1, module_list)
         ELSE IF ~Has(d, replace_use(d[i].k))
              THEN KeyError
              ELSE FilterLoopAnyFlag(d, i + 1,
                     Append(module_list, FilterClass(Get(d, replace_use(d[i].k)))))
get_filter_modules_any_flag(d) == FilterLoopAnyFlag(d, 1, <<>>)

(* get_filter_modules that skips a flag whose settings entry is missing *)
RECURSIVE FilterLoopSkipMissing(_, _, _)
FilterLoopSkipMissing(d, i, module_list) ==
    IF i > Len(d) THEN module_list
    ELSE IF ~pat_search(d[i].k) \/ ~eq_True(d[i].v) \/ ~Has(d, replace_use(d[i].k))
         THEN FilterLoopSkipMissing(d, i + 1, module_list)
         ELSE FilterLoopSkipMissing(d, i + 1,
                Append(module_list, FilterClass(Get(d, replace_use(d[i].k)))))
get_filter_modules_skip_missing(d) == FilterLoopSkipMissing(d, 1, <<>>)

get_filter_modules(d) == FilterLoop(d, 1, <<>>)

(* ---------------- reward/dscore_reward.py ---------------- *)
(* A sub-objective value or the outcome of an objective function: None, a
   number x, or a raised exception.  egfr and bace1 are integer predictions,
   sascore is counted in quarters (4 is 1.0, 40 is 10.0) and qed is given by
   its binary exponent (x stands for 2^-x). *)
NoneV == [tag |-> "none", x |-> 0]
NumV(x) == [tag |-> "num", x |-> x]
RaiseV == [tag |-> "raise", x |-> 0]

(* A number of [0, 1]: zero, or 2^-(num/den).  Scaled values have den = 1. *)
Zero == [kind |-> "num", zero |-> TRUE, num |-> 0, den |-> 1, exc |-> ""]
Pow2(n, d) == [kind |-> "num", zero |-> FALSE, num |-> n, den |-> d, exc |-> ""]
One == Pow2(0, 1)
Unscaled == [kind |-> "None", zero |-> FALSE, num |-> 0, den |-> 1, exc |-> ""]
Minus1 == [kind |-> "-1", zero |-> FALSE, num |-> 0, den |-> 1, exc |-> ""]
Raise(e) == [kind |-> "raise", zero |-> FALSE, num |-> 0, den |-> 1, exc |-> e]
NotCalled == [kind |-> "not called", zero |-> FALSE, num |-> 0, den |-> 1, exc |-> ""]

(* misc.scaler: Gaussian shaping that saturates at 1 on the good side, and
   linear min-max *)
max_gauss(x) == IF x >= 1 THEN One ELSE Pow2((1 - x) * (1 - x), 1)
min_gauss(x) == IF x <= 0 THEN One ELSE Pow2(x * x, 1)
RECURSIVE TwoTo(_)
TwoTo(e) == IF e = 0 THEN 1 ELSE 2 * TwoTo(e - 1)
minmax(x, lo, hi) ==
    IF x = lo THEN Zero
    ELSE Pow2(CHOOSE e \in 0..8 : (x - lo) * TwoTo(e) = hi - lo, 1)

(* v ** w for a scaled value v and a weight w >= 0 *)
Power(v, w) ==
    IF v.zero THEN (IF w = 0 THEN One ELSE Zero) ELSE Pow2(v.num * w, 1)
Times(a, b) == IF a.zero \/ b.zero THEN Zero ELSE Pow2(a.num + b.num, 1)
(* m ** (1/s) for s > 0 *)
RootOf(m, s) == IF m.zero THEN Zero ELSE Pow2(m.num, s)

RECURSIVE SumWeights(_, _)
SumWeights(w, i) == IF i > Len(w) THEN 0 ELSE w[i].v + SumWeights(w, i + 1)

(* lines 72-74: for v, w in zip(scaled_values, weight.values()) *)
RECURSIVE ZipLoop(_, _, _, _)
ZipLoop(scaled_values, w, i, multiplication_value) ==
    IF i > Len(scaled_values) \/ i > Len(w) THEN multiplication_value
    ELSE IF scaled_values[i].kind = "None" THEN Raise("TypeError")
    ELSE ZipLoop(scaled_values, w, i + 1,
                 Times(multiplication_value, Power(scaled_values[i], w[i].v)))

(* the loop pairing each value with the weight listed under its own name *)
ObjectiveNames == <<"egfr", "bace1", "sascore", "qed">>
RECURSIVE ByNameLoop(_, _, _, _)
ByNameLoop(scaled_values, w, i, multiplication_value) ==
    IF i > Len(scaled_values) THEN multiplication_value
    ELSE IF ~Has(w, ObjectiveNames[i])
         THEN ByNameLoop(scaled_values, w, i + 1, multiplication_value)
    ELSE IF scaled_values[i].kind = "None" THEN Raise("TypeError")
    ELSE ByNameLoop(scaled_values, w, i + 1,
                    Times(multiplication_value,
                          Power(scaled_values[i], Get(w, ObjectiveNames[i]))))

ScaledValues(vals, sc) ==
    << IF sc.egfr = "max_gauss" THEN max_gauss(vals[1].x)
       ELSE IF sc.egfr = "min_gauss" THEN min_gauss(vals[1].x)
       ELSE Unscaled,
       IF sc.bace1 = "max_gauss" THEN max_gauss(vals[2].x)
       ELSE IF sc.bace1 = "min_gauss" THEN min_gauss(vals[2].x)
       ELSE Unscaled,
       minmax(-1 * vals[3].x, -40, -4),
       Pow2(vals[4].x, 1) >>

NoneIn(vals) == \E i \in DOMAIN vals : vals[i] = NoneV

(* calc_reward_from_objective_values whose None test misses the last value *)
calc_reward_none_in_first_three(vals, w, sc) ==
    IF \E i \in 1..3 : vals[i] = NoneV THEN Minus1
    ELSE LET m == ZipLoop(ScaledValues(vals, sc), w, 1, One)
         IN IF m.kind = "raise" THEN m
            ELSE IF SumWeights(w, 1) = 0 THEN Raise("ZeroDivisionError")
            ELSE RootOf(m, SumWeights(w, 1))

calc_reward_from_objective_values(vals, w, sc) ==
    IF NoneIn(vals) THEN Minus1
    ELSE LET m == ZipLoop(ScaledValues(vals, sc), w, 1, One)
         IN IF m.kind = "raise" THEN m
            ELSE IF SumWeights(w, 1) = 0 THEN Raise("ZeroDivisionError")
            ELSE RootOf(m, SumWeights(w, 1))

(* get_objective_functions: EGFR, BACE1, SAScore, QED applied to a molecule.
   A molecule is None (the decode failed) or carries what the predictors and
   RDKit compute from it; qed_valence marks a molecule on which QED.qed raises
   AtomValenceException. *)
NoneMol == [none |-> TRUE, egfr |-> 0, bace1 |-> 0, sascore |-> 4, qed |-> 0,
            qed_valence |-> FALSE]
(* no candidate has been decoded yet *)
NoMolYet == [none |-> FALSE, egfr |-> 0, bace1 |-> 0, sascore |-> 0, qed |-> 0,
             qed_valence |-> FALSE]
EGFR(m) == IF m.none THEN NoneV ELSE NumV(m.egfr)
BACE1(m) == IF m.none THEN NoneV ELSE NumV(m.bace1)
SAScore(m) == IF m.none THEN RaiseV ELSE NumV(m.sascore)
Qed(m) ==
    IF m.none THEN RaiseV
    ELSE IF m.qed_valence THEN NoneV
    ELSE NumV(m.qed)
ObjectiveValues(m) == <<EGFR(m), BACE1(m), SAScore(m), Qed(m)>>

(* ---------------- the run log ---------------- *)
(* A record of the log: the literal text of the message and, for an f-string,
   the key and the value it interpolates. *)
LogRecord(msg, k, v) == [msg |-> msg, k |-> k, v |-> v]
info(msg) == LogRecord(msg, "", Scalar(""))

(* main, lines 161-165: the configuration dump, one record per entry of conf
   in the dict's order, then the GPU devices *)
ConfigurationDump(d, gpu) ==
    <<info("========== Configuration ==========")>>
    \o [i \in DOMAIN d |-> LogRecord("k: v", d[i].k, d[i].v)]
    \o <<LogRecord("GPU devices: ", "", Scalar(IF gpu = None THEN "-1" ELSE gpu)),
         info("===================================")>>

(* ---------------- collaborators of main ---------------- *)
(* misc.preprocessing.smi_tokenizer: the SMILES string split into tokens *)
smi_tokenizer(smi) ==
    CASE smi = "CCO" -> <<"C", "C", "O">>
      [] smi = "CN" -> <<"C", "N">>

(* chemts.State(position=...): the token sequence of the root; State() is the
   empty start state *)
EmptyState == <<"&">>
State(position) == position

(* yaml.load of the configuration file: None for an empty file (yaml_none),
   else a dict of at most MaxUserKeys distinct options in the order the file
   lists them.  A filter flag is written true or false, and some also as the
   number 1, 1.0 or 0. *)
UserEntries ==
    {[k |-> "threshold_type", v |-> Scalar(t)] : t \in {"time", "generation_num", "steps"}}
    \cup {[k |-> "hours", v |-> Scalar("2")],
          [k |-> "generation_num", v |-> Scalar("5")],
          [k |-> "flush_threshold", v |-> Scalar("0.5")],
          [k |-> "input_smiles", v |-> Scalar("CN")],
          [k |-> "custom_filter", v |-> Dict("filter.custom_filter", "CustomFilter", "")]}
    \cup {[k |-> u, v |-> b] : u \in UseFilterKeys, b \in {PyTrue, PyFalse}}
    \cup {[k |-> "use_lipinski_filter", v |-> Scalar("1")],
          [k |-> "use_radical_filter", v |-> Scalar("0")],
          [k |-> "use_custom_filter", v |-> Scalar("1.0")]}

DistinctKeys(d) == \A i, j \in DOMAIN d : d[i].k = d[j].k => i = j

UserConfs ==
    {d \in UNION {[1..n -> UserEntries] : n \in 0..MaxUserKeys} : DistinctKeys(d)}

(* the reward variables do not take part in start-up *)
RewardIdle ==
    /\ weight = <<>>
    /\ scaling = [egfr |-> "max_gauss", bace1 |-> "max_gauss"]
    /\ mol = NoMolYet
    /\ values = <<>>
    /\ reward = NotCalled

(* The files the run reads, by the option that names each; missing_file is
   the one that does not exist when the run starts (None: all are there).
   The first missing file ends the run, so one at a time is enough. *)
MissingFiles == {None, "model_json", "model_weight", "token"}

(* main, lines 131-133: the arguments and the configuration file are read *)
Start ==
    /\ \/ yaml_none = FALSE /\ user_conf \in UserConfs
       \/ yaml_none = TRUE /\ user_conf = <<>>
    /\ conf = user_conf
    /\ args \in [input_smiles : {None, "CCO"}, debug : {FALSE}, gpu : {None}]
    /\ pc = "start"
    /\ root_state = <<>>
    /\ log = <<>>
    /\ error = None
    /\ RewardIdle

(* a run in an installation with all its files *)
Init ==
    /\ Start
    /\ missing_file = None

(* a run in an installation where one of the files may be missing *)
InitMissingFile ==
    /\ Start
    /\ missing_file \in MissingFiles

Abort(e) ==
    /\ pc' = "aborted"
    /\ error' = e

(* main, line 134; conf.setdefault on None raises AttributeError *)
SetDefaultConfig ==
    /\ pc = "start"
    /\ IF yaml_none
       THEN /\ Abort("AttributeError")
            /\ UNCHANGED conf
       ELSE /\ conf' = set_default_config(conf)
            /\ pc' = "configured"
            /\ UNCHANGED error
    /\ UNCHANGED <<user_conf, yaml_none, args, missing_file, root_state, log>>
    /\ UNCHANGED reward_vars

(* misc.load_model.get_model_structure_info(conf['model_json'], logger) and
   loaded_model(conf['model_weight'], logger, conf): each reads its file, and
   a missing model file ends the run at start-up *)
get_model_structure_info_raises(missing) == missing = "model_json"
loaded_model_raises(missing) == missing = "model_weight"

(* main, line 139 *)
WithDebug(d) == SetItem(d, "debug", IF args.debug THEN PyTrue ELSE PyFalse)
(* main, line 149 *)
WithStructure(d) ==
    SetItem(SetItem(SetItem(d, "max_len", Scalar("82")),
                    "rnn_vocab_size", Scalar("64")),
            "rnn_output_size", Scalar("64"))

(* main, lines 135-150: the output directory (line 135; os.makedirs may fail),
   the debug flag (line 139), the logger (line 141; get_logger opens run.log
   in the output directory, which may fail), the reward and policy classes
   (lines 145-148; import_module may fail), the model's structure (line 149,
   which fills in max_len, rnn_vocab_size and rnn_output_size) and its
   weights (line 150) *)
LoadModel ==
    /\ pc = "configured"
    /\ \/ /\ conf' = conf
          /\ Abort("OSError")
       \/ /\ conf' = WithDebug(conf)
          /\ Abort("OSError")
       \/ /\ conf' = WithDebug(conf)
          /\ Abort("ModuleNotFoundError")
       \/ IF get_model_structure_info_raises(missing_file)
          THEN /\ conf' = WithDebug(conf)
               /\ Abort("FileNotFoundError")
          ELSE IF loaded_model_raises(missing_file)
          THEN /\ conf' = WithStructure(WithDebug(conf))
               /\ Abort("FileNotFoundError")
          ELSE /\ conf' = WithStructure(WithDebug(conf))
               /\ pc' = "model_loaded"
               /\ UNCHANGED error
    /\ UNCHANGED <<user_conf, yaml_none, args, missing_file, root_state, log>>
    /\ UNCHANGED reward_vars

(* main, lines 151-154 *)
InputSmiles ==
    /\ pc = "model_loaded"
    /\ IF args.input_smiles # None
       THEN /\ log' = Append(log, LogRecord("Extend mode: input SMILES = ", "",
                                             Scalar(args.input_smiles)))
            /\ conf' = SetItem(SetItem(conf, "input_smiles", Scalar(args.input_smiles)),
                               "tokenized_smiles", List(smi_tokenizer(args.input_smiles)))
       ELSE UNCHANGED <<log, conf>>
    /\ pc' = "seeded"
    /\ UNCHANGED <<user_conf, yaml_none, args, missing_file, root_state, error>>
    /\ UNCHANGED reward_vars

(* the branch with the two pops exchanged *)
threshold_branch_swapped(d) ==
    IF Get(d, "threshold_type") = Scalar("time") THEN Pop(d, "hours")
    ELSE IF Get(d, "threshold_type") = Scalar("generation_num") THEN Pop(d, "generation_num")
    ELSE d

(* main, lines 156-159 *)
threshold_branch(d) ==
    IF Get(d, "threshold_type") = Scalar("time") THEN Pop(d, "generation_num")
    ELSE IF Get(d, "threshold_type") = Scalar("generation_num") THEN Pop(d, "hours")
    ELSE d

ThresholdBranch ==
    /\ pc = "seeded"
    /\ conf' = threshold_branch(conf)
    /\ pc' = "budgeted"
    /\ UNCHANGED <<user_conf, yaml_none, args, missing_file, root_state, log, error>>
    /\ UNCHANGED reward_vars

(* main, lines 161-167 *)
GetFilterModules ==
    /\ pc = "budgeted"
    /\ IF get_filter_modules(conf) = KeyError
       THEN /\ Abort("KeyError")
            /\ UNCHANGED conf
       ELSE /\ conf' = SetItem(conf, "filter_list", List(get_filter_modules(conf)))
            /\ pc' = "filtered"
            /\ UNCHANGED error
    /\ log' = log \o ConfigurationDump(conf, args.gpu)
    /\ UNCHANGED <<user_conf, yaml_none, args, missing_file, root_state>>
    /\ UNCHANGED reward_vars

(* main, line 169: open(conf['token'], 'rb') raises for a missing file *)
open_raises(missing) == missing = "token"

(* main, lines 169-171 *)
LoadToken ==
    /\ pc = "filtered"
    /\ IF open_raises(missing_file)
       THEN Abort("FileNotFoundError")
       ELSE pc' = "token_loaded" /\ UNCHANGED error
    /\ UNCHANGED <<conf, user_conf, yaml_none, args, missing_file, root_state, log>>
    /\ UNCHANGED reward_vars

(* the constructor taking any threshold_type *)
mcts_accepts_any(d) == Has(d, "threshold_type")

(* chemts.MCTS.__init__ is not part of run_chemts.py, whose lines 156-159
   have no else branch: the engine's budget is a wall-clock limit ('time')
   or an iteration count ('generation_num'), and a configuration naming
   neither is a run-level failure that ends the run at start-up *)
mcts_accepts(d) ==
    Get(d, "threshold_type") \in {Scalar("time"), Scalar("generation_num")}

(* main, lines 173-174: the root state, then MCTS(...), whose constructor
   ends the run when it does not accept the configuration *)
CreateMCTS ==
    /\ pc = "token_loaded"
    /\ root_state' = IF args.input_smiles = None
                     THEN EmptyState
                     ELSE State(Get(conf, "tokenized_smiles").items)
    /\ IF mcts_accepts(conf)
       THEN pc' = "mcts_ready" /\ UNCHANGED error
       ELSE Abort("SystemExit")
    /\ UNCHANGED <<conf, user_conf, yaml_none, args, missing_file, log>>
    /\ UNCHANGED reward_vars

(* main, line 175: mcts.search() returns when the budget is used up, or
   raises on a fatal condition, which main does not catch *)
Search ==
    /\ pc = "mcts_ready"
    /\ \/ pc' = "searched" /\ UNCHANGED error
       \/ Abort("SearchError")
    /\ UNCHANGED <<conf, user_conf, yaml_none, args, missing_file, root_state, log>>
    /\ UNCHANGED reward_vars

(* main, line 176 *)
Finished ==
    /\ pc = "searched"
    /\ log' = Append(log, info("Finished!"))
    /\ pc' = "finished"
    /\ UNCHANGED <<conf, user_conf, yaml_none, args, missing_file, root_state, error>>
    /\ UNCHANGED reward_vars

Next ==
    \/ SetDefaultConfig
    \/ LoadModel
    \/ InputSmiles
    \/ ThresholdBranch
    \/ GetFilterModules
    \/ LoadToken
    \/ CreateMCTS
    \/ Search
    \/ Finished

Spec == Init /\ [][Next]_vars

SpecMissingFile == InitMissingFile /\ [][Next]_vars

(* ---------------- the reward calculator at work ---------------- *)
(* conf["weight"]: an ordered dict over the objectives' names, any number of
   them in any order; conf["scaling_function"] for egfr and bace1 *)
WeightEntries ==
    {[k |-> ObjectiveNames[i], v |-> w] : i \in DOMAIN ObjectiveNames, w \in 0..MaxWeight}
Weights ==
    {d \in UNION {[1..n -> WeightEntries] : n \in 0..Len(ObjectiveNames)} : DistinctKeys(d)}
Scalings == [egfr : {"max_gauss", "min_gauss", "minmax"},
             bace1 : {"max_gauss", "min_gauss", "minmax"}]

Predictions == {NoneV} \cup {NumV(x) : x \in 0..MaxRaw}
SAScores == {NoneV, NumV(4), NumV(22), NumV(40)}
QedValues == {NoneV, NumV(0), NumV(1)}
Mols == {NoneMol} \cup
        [none : {FALSE}, egfr : 0..MaxRaw, bace1 : {0}, sascore : {4, 22},
         qed : {1}, qed_valence : BOOLEAN]

MainIdle ==
    /\ pc = "reward"
    /\ conf = <<>> /\ user_conf = <<>> /\ yaml_none = FALSE
    /\ args = [input_smiles |-> None, debug |-> FALSE, gpu |-> None]
    /\ missing_file = None
    /\ root_state = <<>> /\ log = <<>> /\ error = None

InitReward ==
    /\ weight \in Weights
    /\ scaling \in Scalings
    /\ mol = NoMolYet
    /\ values = <<>>
    /\ reward = NotCalled
    /\ MainIdle

(* calc_reward_from_objective_values(values, conf) on any four values *)
CalcReward ==
    /\ pc = "reward"
    /\ pc' = "rewarded"
    /\ \E v \in Predictions \X Predictions \X SAScores \X QedValues :
          /\ values' = v
          /\ reward' = calc_reward_from_objective_values(v, weight, scaling)
    /\ UNCHANGED <<weight, scaling, mol>>
    /\ UNCHANGED <<conf, user_conf, yaml_none, args, missing_file,
                   root_state, log, error>>

(* the reward of a candidate: the objective functions applied to the decoded
   molecule, then calc_reward_from_objective_values; an exception of an
   objective function leaves the reward calculator *)
RewardOfMol ==
    /\ pc = "reward"
    /\ pc' = "rewarded"
    /\ \E m \in Mols :
          /\ mol' = m
          /\ values' = ObjectiveValues(m)
          /\ reward' = IF \E i \in 1..4 : ObjectiveValues(m)[i] = RaiseV
                       THEN Raise("ArgumentError")
                       ELSE calc_reward_from_objective_values(
                                ObjectiveValues(m), weight, scaling)
    /\ UNCHANGED <<weight, scaling>>
    /\ UNCHANGED <<conf, user_conf, yaml_none, args, missing_file,
                   root_state, log, error>>

NextReward ==
    \/ CalcReward
    \/ RewardOfMol

SpecReward == InitReward /\ [][NextReward]_vars

(***************************************************************************)
(* Properties of the reward calculator                                      *)
(***************************************************************************)
Rewarded == pc = "rewarded"
ObjectiveRaised == \E i \in DOMAIN values : values[i] = RaiseV
InUnitInterval(r) == r.kind = "num" /\ r.den > 0 /\ (r.zero \/ r.num >= 0)

(* C2: with None among the four sub-objective values the reward is exactly
   -1, under every weight and scaling_function configuration: no scaling
   function is evaluated and nothing is raised. *)
C2_NoneGivesMinusOne ==
    (Rewarded /\ ~ObjectiveRaised /\ NoneIn(values)) => reward = Minus1

C2_Witness ==
    /\ Rewarded
    /\ values[1] # NoneV /\ values[4] = NoneV /\ ~ObjectiveRaised
    /\ scaling.egfr = "minmax"
    /\ weight = <<>>
    /\ reward = Minus1

(* C3: with no None among the four values the reward is a number of [0, 1]
   under every configuration of weights and scaling functions: nothing is
   raised, no -1 or None is returned, no sub-objective stays unscaled. *)
C3_RewardInUnitInterval ==
    (Rewarded /\ ~ObjectiveRaised /\ ~NoneIn(values)) => InUnitInterval(reward)

(* C4: for a candidate whose decode failed (the molecule is None) each of
   the four objective functions reports None, none raises, and the reward is
   exactly -1. *)
C4_DecodeFailureGivesMinusOne ==
    (Rewarded /\ mol = NoneMol) =>
        /\ values = <<NoneV, NoneV, NoneV, NoneV>>
        /\ reward = Minus1

(* C9: each sub-objective is raised to the weight listed under its own name,
   in whatever order and number the weight entries are listed: the reward is
   the weighted geometric mean of scaled egfr, scaled bace1, scaled sascore
   and qed under weight['egfr'], weight['bace1'], weight['sascore'] and
   weight['qed']. *)
C9_WeightOfOwnName ==
    (Rewarded /\ reward.kind = "num") =>
        reward = RootOf(ByNameLoop(ScaledValues(values, scaling), weight, 1, One),
                        SumWeights(weight, 1))

(***************************************************************************)
(* Properties of start-up                                                   *)
(***************************************************************************)
ThresholdType == Get(conf, "threshold_type").val
AfterThresholdBranch ==
    pc \in {"budgeted", "filtered", "token_loaded", "mcts_ready", "searched", "finished"}

(* C1, as stated: after set_default_config and the threshold_type branch,
   whatever the user configuration, exactly one of 'hours' and
   'generation_num' is left: 'hours' only under 'time', 'generation_num' only
   under 'generation_num'. *)
C1_ExactlyOneBudgetField ==
    AfterThresholdBranch =>
        /\ Has(conf, "hours") # Has(conf, "generation_num")
        /\ Has(conf, "hours") <=> ThresholdType = "time"
        /\ Has(conf, "generation_num") <=> ThresholdType = "generation_num"

(* C1, amended: when threshold_type (given or defaulted) is 'time' or
   'generation_num', exactly the matching budget field is left, whether or
   not the user supplied the other; for any other threshold_type both fields
   are left in the configuration. *)
C1_BudgetFieldOfValidType ==
    AfterThresholdBranch =>
        /\ ThresholdType = "time" =>
              Has(conf, "hours") /\ ~Has(conf, "generation_num")
        /\ ThresholdType = "generation_num" =>
              Has(conf, "generation_num") /\ ~Has(conf, "hours")
        /\ ThresholdType \notin {"time", "generation_num"} =>
              Has(conf, "hours") /\ Has(conf, "generation_num")

C1_Witness ==
    /\ pc = "mcts_ready"
    /\ ThresholdType = "generation_num"
    /\ Has(user_conf, "hours")
    /\ ~Has(conf, "hours")
    /\ Get(conf, "generation_num") = Scalar("1000")

(* the options the configuration surface lists, input_smiles being optional *)
RecognizedOptions ==
    {"c_val", "threshold_type", "hours", "generation_num", "simulation_num",
     "expansion_threshold", "flush_threshold",
     "infinite_loop_threshold_for_selection", "infinite_loop_threshold_for_expansion",
     "use_lipinski_filter", "use_radical_filter", "use_hashimoto_filter",
     "use_sascore_filter", "use_ring_size_filter",
     "lipinski_filter", "radical_filter", "hashimoto_filter", "sascore_filter",
     "ring_size_filter", "include_filter_result_in_reward",
     "leaf_parallel", "qsub_parallel", "save_checkpoint", "restart",
     "checkpoint_file", "neutralization"}

(* C10: set_default_config only fills in what is missing: every entry of the
   user's file is kept with its value (and place), every recognized option is
   present, a second application changes nothing, and threshold_type 'time'
   and flush_threshold -1 appear exactly when the user gave no value. *)
C10_DefaultsOnlyFillMissing ==
    pc = "configured" =>
        /\ SubSeq(conf, 1, Len(user_conf)) = user_conf
        /\ \A i \in DOMAIN user_conf : Get(conf, user_conf[i].k) = user_conf[i].v
        /\ RecognizedOptions \subseteq Keys(conf)
        /\ DistinctKeys(conf)
        /\ set_default_config(conf) = conf
        /\ ~Has(user_conf, "threshold_type") => Get(conf, "threshold_type") = Scalar("time")
        /\ ~Has(user_conf, "flush_threshold") => Get(conf, "flush_threshold") = Scalar("-1")

C10_Witness ==
    /\ pc = "configured"
    /\ Has(user_conf, "flush_threshold")
    /\ Get(conf, "flush_threshold") = Scalar("0.5")
    /\ ~Has(user_conf, "threshold_type")
    /\ Get(conf, "threshold_type") = Scalar("time")

(* the default chain: drug-likeness, radical, duplicate-substructure,
   synthesizability, ring size *)
DefaultChain == <<"use_lipinski_filter", "use_radical_filter", "use_hashimoto_filter",
                  "use_sascore_filter", "use_ring_size_filter">>
FiveFlags == {DefaultChain[i] : i \in DOMAIN DefaultChain}
ClassOfFlag(k) ==
    CASE k = "use_lipinski_filter" -> <<"filter.lipinski_filter", "LipinskiFilter">>
      [] k = "use_radical_filter" -> <<"filter.radical_filter", "RadicalFilter">>
      [] k = "use_hashimoto_filter" -> <<"filter.hashimoto_filter", "HashimotoFilter">>
      [] k = "use_sascore_filter" -> <<"filter.sascore_filter", "SascoreFilter">>
      [] k = "use_ring_size_filter" -> <<"filter.ring_size_filter", "RingSizeFilter">>
FiveClasses == {ClassOfFlag(k) : k \in FiveFlags}

HasFilterList == Has(conf, "filter_list")
FilterList == Get(conf, "filter_list").items
IsFiveClass(c) == c \in FiveClasses
FiveOnly(list) == SelectSeq(list, IsFiveClass)
Enabled(k) == eq_True(Get(conf, k))
ClassesOf(flags) == [i \in DOMAIN flags |-> ClassOfFlag(flags[i])]
KeySeq(d) == [i \in DOMAIN d |-> d[i].k]
IsFiveFlag(k) == k \in FiveFlags
NotInUserConf(k) == ~Has(user_conf, k)

(* C5, as stated: the enabled filters always come in the default chain
   order, whatever order the user's file mentions the flags in. *)
C5_AlwaysDefaultOrder ==
    HasFilterList =>
        FiveOnly(FilterList) = ClassesOf(SelectSeq(DefaultChain, Enabled))

(* the flags in the order of the configuration after set_default_config: the
   ones the user's file mentions, in the file's order, then the others in the
   default chain order *)
ConfiguredOrder ==
    SelectSeq(KeySeq(user_conf), IsFiveFlag) \o SelectSeq(DefaultChain, NotInUserConf)

(* C5, amended: the enabled filters come in the order of their flags in the
   configuration: flags the user's file mentions first, in the file's order,
   then the unmentioned ones in the default chain order; this is the default
   chain order whenever the file mentions none of the flags, or mentions them
   in an order that keeps the sequence above in default order. *)
C5_ConfiguredOrder ==
    HasFilterList =>
        /\ FiveOnly(FilterList) = ClassesOf(SelectSeq(ConfiguredOrder, Enabled))
        /\ ConfiguredOrder = DefaultChain =>
              FiveOnly(FilterList) = ClassesOf(SelectSeq(DefaultChain, Enabled))

C5_Witness ==
    /\ HasFilterList
    /\ Len(user_conf) = 2
    /\ user_conf[1] = [k |-> "use_ring_size_filter", v |-> PyTrue]
    /\ user_conf[2] = [k |-> "use_lipinski_filter", v |-> PyTrue]
    /\ FilterList = ClassesOf(<<"use_ring_size_filter", "use_lipinski_filter",
                                "use_radical_filter", "use_hashimoto_filter",
                                "use_sascore_filter">>)

Count(list, c) == Cardinality({i \in DOMAIN list : list[i] = c})
Without(list, c) == SelectSeq(list, LAMBDA x : x # c)
Negate(v) == IF eq_True(v) THEN PyFalse ELSE PyTrue

(* C6: each of the five filters is switched on and off independently: its
   class is in the filter list once when its flag is true and not at all
   when it is false, and giving one flag the other value, in the
   configuration or in the user's file, leaves the presence and order of
   all the other filters as they are. *)
C6_IndependentFlags ==
    pc = "filtered" =>
        \A f \in FiveFlags :
            /\ Count(FilterList, ClassOfFlag(f)) = IF Enabled(f) THEN 1 ELSE 0
            /\ Without(get_filter_modules(SetItem(conf, f, Negate(Get(conf, f)))),
                       ClassOfFlag(f))
                 = Without(FilterList, ClassOfFlag(f))
            /\ Without(get_filter_modules(set_default_config(
                         SetItem(user_conf, f, Negate(Get(conf, f))))),
                       ClassOfFlag(f))
                 = Without(FilterList, ClassOfFlag(f))

C6_Witness ==
    /\ pc = "filtered"
    /\ user_conf = <<[k |-> "use_lipinski_filter", v |-> Scalar("1")],
                     [k |-> "use_radical_filter", v |-> Scalar("0")]>>
    /\ FilterList = ClassesOf(<<"use_lipinski_filter", "use_hashimoto_filter",
                                "use_sascore_filter", "use_ring_size_filter">>)

RootCreated == pc \in {"mcts_ready", "searched", "finished"}

(* C7: the search is in extend mode exactly when the final configuration
   holds an input_smiles seed, from the command line or from the file: the
   root is then the tokenized seed and the configuration holds the matching
   tokenized_smiles; otherwise the root is the empty start state. *)
C7_ExtendModeIffSeed ==
    RootCreated =>
        IF Has(conf, "input_smiles")
        THEN /\ Has(conf, "tokenized_smiles")
             /\ Get(conf, "tokenized_smiles").items
                  = smi_tokenizer(Get(conf, "input_smiles").val)
             /\ root_state = State(smi_tokenizer(Get(conf, "input_smiles").val))
        ELSE root_state = EmptyState

(* the kinds of bad configuration *)
BadThresholdType ==
    Has(user_conf, "threshold_type")
    /\ Get(user_conf, "threshold_type").val \notin {"time", "generation_num"}
(* a flag named use_..._filter that is switched on while neither the file nor
   the defaults hold the settings entry of that filter *)
FlagWithoutSettings ==
    \E i \in DOMAIN user_conf :
        /\ user_conf[i].k \in UseFilterKeys
        /\ user_conf[i].v.kind = "scalar"
        /\ user_conf[i].v.val \in {"True", "1", "1.0"}
        /\ ~Has(user_conf, replace_use(user_conf[i].k))
        /\ ~Has(Defaults, replace_use(user_conf[i].k))
MissingModelFile == missing_file \in {"model_json", "model_weight"}
MissingTokenFile == missing_file = "token"
(* an empty configuration file is no configuration at all *)
BadConfiguration ==
    \/ yaml_none
    \/ BadThresholdType
    \/ FlagWithoutSettings
    \/ MissingModelFile
    \/ MissingTokenFile

(* mcts.search() has been called *)
SearchCalled == pc \in {"searched", "finished"} \/ error = "SearchError"
FinishedLogged == \E i \in DOMAIN log : log[i].msg = "Finished!"

(* C8: a run with a bad configuration (unknown threshold_type, an enabled
   filter flag without its settings, a missing model or token file) stops
   before mcts.search() is called: no engine is built and no search started
   for it, and once it has stopped it has stopped with an error.
   "Finished!" is logged only once a search has returned. *)
C8_BadConfigurationNeverSearched ==
    /\ BadConfiguration => pc # "mcts_ready" /\ ~SearchCalled
    /\ BadConfiguration /\ pc = "aborted" => error # None
    /\ FinishedLogged => pc = "finished" /\ error = None

(* an enabled flag without settings: the KeyError of line 126 *)
C8_Witness ==
    /\ pc = "aborted"
    /\ error = "KeyError"
    /\ FlagWithoutSettings
    /\ ~BadThresholdType /\ missing_file = None

(* the other kinds of bad configuration, each stopped on its own *)
C8_MissingTokenStopped ==
    /\ pc = "aborted" /\ error = "FileNotFoundError"
    /\ MissingTokenFile /\ ~BadThresholdType /\ ~FlagWithoutSettings
    /\ Has(conf, "filter_list")
C8_MissingModelStopped ==
    /\ pc = "aborted" /\ error = "FileNotFoundError"
    /\ missing_file = "model_weight" /\ ~BadThresholdType /\ ~FlagWithoutSettings
    /\ Has(conf, "max_len")
C8_BadThresholdTypeStopped ==
    /\ pc = "aborted" /\ error = "SystemExit"
    /\ BadThresholdType /\ ~FlagWithoutSettings /\ missing_file = None
    /\ Has(conf, "hours") /\ Has(conf, "generation_num")
C8_SearchCompleted ==
    /\ pc = "finished" /\ FinishedLogged /\ ~BadConfiguration
C8_SearchRaised ==
    /\ pc = "aborted" /\ error = "SearchError" /\ ~FinishedLogged

====
